---- MODULE Spec2Model ----
(***************************************************************************)
(* A model of just-run's build(): the traversal that discovers the source  *)
(* files of an entry file, the common-root / output-path computation, the  *)
(* concurrent per-file rewrite-and-write tasks, and updateImports.         *)
(*                                                                         *)
(* Paths, specifiers and emitted text are strings; JavaScript's string     *)
(* methods and node:path/posix are operators over them.                    *)
(***************************************************************************)
EXTENDS Integers, Sequences, FiniteSets, TLC

(***************************************************************************)
(* JavaScript string methods                                               *)
(***************************************************************************)
CharAt(s, i) == SubSeq(s, i, i)

StartsWith(s, p) == Len(p) <= Len(s) /\ SubSeq(s, 1, Len(p)) = p

EndsWith(s, p) == Len(p) <= Len(s) /\ SubSeq(s, Len(s) - Len(p) + 1, Len(s)) = p

\* s.slice(n) for 0 <= n
Slice(s, n) == IF n >= Len(s) THEN "" ELSE SubSeq(s, n + 1, Len(s))

\* s.slice(0, n) for 0 <= n
SliceTo(s, n) == IF n >= Len(s) THEN s ELSE SubSeq(s, 1, n)

Includes(s, t) == \E i \in 0..(Len(s) - Len(t)) : SubSeq(s, i + 1, i + Len(t)) = t

\* 1-based position of the last occurrence of the character c in s, 0 if none
LastIndexOf(s, c) ==
  LET hits == {i \in 1..Len(s) : CharAt(s, i) = c}
  IN IF hits = {} THEN 0 ELSE CHOOSE i \in hits : \A j \in hits : j <= i

(***************************************************************************)
(* node:path/posix                                                         *)
(***************************************************************************)
RECURSIVE SplitFrom(_, _, _)
SplitFrom(s, i, cur) ==
  IF i > Len(s) THEN <<cur>>
  ELSE IF CharAt(s, i) = "/" THEN <<cur>> \o SplitFrom(s, i + 1, "")
  ELSE SplitFrom(s, i + 1, cur \o CharAt(s, i))

Split(s) == SplitFrom(s, 1, "")

\* normalizeString: drop "" and ".", resolve ".." against what precedes it
RECURSIVE NormalizeSegs(_, _, _)
NormalizeSegs(segs, acc, isAbsolute) ==
  IF segs = <<>> THEN acc
  ELSE LET h == Head(segs)
           t == Tail(segs)
       IN IF h = "" \/ h = "." THEN NormalizeSegs(t, acc, isAbsolute)
          ELSE IF h = ".."
            THEN IF acc # <<>> /\ acc[Len(acc)] # ".."
                   THEN NormalizeSegs(t, SubSeq(acc, 1, Len(acc) - 1), isAbsolute)
                 ELSE IF isAbsolute THEN NormalizeSegs(t, acc, isAbsolute)
                 ELSE NormalizeSegs(t, Append(acc, ".."), isAbsolute)
          ELSE NormalizeSegs(t, Append(acc, h), isAbsolute)

RECURSIVE JoinSegs(_)
JoinSegs(segs) ==
  IF segs = <<>> THEN ""
  ELSE IF Len(segs) = 1 THEN segs[1]
  ELSE segs[1] \o "/" \o JoinSegs(Tail(segs))

\* path.normalize
Normalize(p) ==
  IF p = "" THEN "."
  ELSE LET isAbsolute == StartsWith(p, "/")
           trailing   == EndsWith(p, "/")
           body       == JoinSegs(NormalizeSegs(Split(p), <<>>, isAbsolute))
       IN IF body = ""
            THEN (IF isAbsolute THEN "/" ELSE IF trailing THEN "./" ELSE ".")
          ELSE (IF isAbsolute THEN "/" ELSE "") \o body \o (IF trailing THEN "/" ELSE "")

\* path.join(a, b)
PathJoin(a, b) ==
  IF a = "" THEN Normalize(b)
  ELSE IF b = "" THEN Normalize(a)
  ELSE Normalize(a \o "/" \o b)

\* path.resolve(from, "..", to) for an absolute 'from': the rightmost absolute
\* argument wins, the result is normalized and has no trailing slash
PathResolveUp(from, to) ==
  LET isAbs == StartsWith(to, "/")
      raw   == IF isAbs THEN to ELSE from \o "/../" \o to
      body  == JoinSegs(NormalizeSegs(Split(raw), <<>>, TRUE))
  IN "/" \o body

\* path.resolve(cwd, p)
PathResolve(cwd, p) ==
  LET raw == IF StartsWith(p, "/") THEN p ELSE cwd \o "/" \o p
  IN "/" \o JoinSegs(NormalizeSegs(Split(raw), <<>>, TRUE))

\* path.dirname of a path without trailing slash
Dirname(p) ==
  LET k == LastIndexOf(p, "/")
  IN IF k = 0 THEN "."
     ELSE IF k = 1 THEN "/"
     ELSE SubSeq(p, 1, k - 1)

Basename(p) == Slice(p, LastIndexOf(p, "/"))

\* path.extname: from the last "." of the basename, unless that "." is the
\* basename's first character or the basename is ".."
Extname(p) ==
  LET b == Basename(p)
      k == LastIndexOf(b, ".")
  IN IF k <= 1 \/ b = ".." THEN "" ELSE Slice(b, k - 1)

(***************************************************************************)
(* Syntax trees.  A tree is the sequence of the statements of Program.body;*)
(* every statement is one record.  nid is the object identity of the node  *)
(* (what node.parent.indexOf(node) compares).                              *)
(*   type       : the ESTree node type                                     *)
(*   importKind : "type" for a type-only import, "value" otherwise         *)
(*   callee     : for a CallExpression, the called expression              *)
(*   argType    : the form of the source / first argument: "Literal",      *)
(*                "TemplateLiteral", "TaggedTemplateExpression" (String.raw)*)
(*   value      : the source / first argument's (cooked) text              *)
(*   raw        : the raw text of a Literal source, with its quotes        *)
(*   specifiers : import specifiers, imported = "" when the specifier has  *)
(*                no imported name (default and namespace specifiers)      *)
(*   properties, init : the ObjectPattern and initialiser of a shim        *)
(***************************************************************************)
Node(nid, type, callee, argType, value, specifiers) ==
  [nid |-> nid, type |-> type, importKind |-> "value", callee |-> callee,
   argType |-> argType, value |-> value, raw |-> "\"" \o value \o "\"",
   specifiers |-> specifiers, properties |-> <<>>, init |-> ""]

DefaultSpec(local) == [type |-> "ImportDefaultSpecifier", imported |-> "", local |-> local]
NamedSpec(imported, local) == [type |-> "ImportSpecifier", imported |-> imported, local |-> local]

ImportDecl(nid, source, specifiers) ==
  Node(nid, "ImportDeclaration", "", "Literal", source, specifiers)
ImportExpr(nid, argType, source) == Node(nid, "ImportExpression", "", argType, source, <<>>)
ExportAll(nid, source) == Node(nid, "ExportAllDeclaration", "", "Literal", source, <<>>)
RequireCall(nid, argType, arg) == Node(nid, "CallExpression", "require", argType, arg, <<>>)
MainRequireCall(nid, arg) ==
  Node(nid, "CallExpression", "require.main.require", "Literal", arg, <<>>)

(***************************************************************************)
(* The machine the build runs on: the working directory, the entry file,   *)
(* the source files on disk and the installed packages.  The entry file's  *)
(* statements are the input of the model (the variable entryBody).         *)
(***************************************************************************)
Cwd == "/p"
EntryFile == "/p/e.ts"

DiskFiles ==
  {"/p/e.ts", "/p/a.ts", "/p/a.js", "/p/b/index.ts", "/p/c.ts", "/p/c.js", "/q/x.ts"}

\* what parseModule(transform(readFile(path))) yields for the files other than the entry
FixedSource(path) ==
  CASE path = "/p/a.ts" -> << RequireCall(1, "TemplateLiteral", "./c") >>
    [] path = "/p/a.js" -> << ImportDecl(1, "./c", <<>>) >>
    [] path = "/p/b/index.ts" ->
         << ImportDecl(1, "cjs-js", << DefaultSpec("d"), NamedSpec("x", "x") >>),
            ImportDecl(2, "esm-pkg", << NamedSpec("m", "m") >>),
            ExportAll(3, "../a.js") >>
    [] OTHER -> <<>>

\* the statements an entry file is made of
Pool ==
  << ImportDecl(1, "./a", <<>>),
     ImportDecl(1, "./a.ts", <<>>),
     RequireCall(1, "Literal", "./c"),
     RequireCall(1, "TaggedTemplateExpression", "./c"),
     ImportDecl(1, "cjs-pkg", << NamedSpec("x", "x"), NamedSpec("y", "z") >>),
     ImportDecl(1, "node:module", << NamedSpec("createRequire", "createRequire") >>),
     ImportDecl(1, "./missing", <<>>),
     MainRequireCall(1, "./gone"),
     ImportDecl(1, "/q/x.ts", <<>>),
     ImportExpr(1, "Literal", "./b"),
     ImportDecl(1, "nopkg", << NamedSpec("n", "n") >>) >>

\* Longest entry file of the model, in statements
MaxEntryLen == 2

\* the entry files: the statements of Pool at increasing positions, numbered 1..n
RECURSIVE Picks(_, _)
Picks(from, n) ==
  IF n = 0 THEN {<<>>}
  ELSE {<<>>} \cup
       UNION {{<<i>> \o rest : rest \in Picks(i + 1, n - 1)} : i \in from..Len(Pool)}

EntryBodies ==
  {[k \in 1..Len(pick) |-> [Pool[pick[k]] EXCEPT !.nid = k]] : pick \in Picks(1, MaxEntryLen)}

\* import.meta.resolve + fileURLToPath: the entry file of an installed package,
\* "" when the package is not installed (the lookup rejects)
PackageEntry(specifier) ==
  CASE specifier = "cjs-pkg" -> "/p/node_modules/cjs-pkg/index.cjs"
    [] specifier = "cjs-js"  -> "/p/node_modules/cjs-js/index.js"
    [] specifier = "esm-pkg" -> "/p/node_modules/esm-pkg/index.MJS"
    [] OTHER -> ""

\* the node types parseModule finds in a package's entry file
PackageNodeTypes(path) ==
  CASE path = "/p/node_modules/cjs-js/index.js" ->
         {"Program", "ExpressionStatement", "AssignmentExpression", "ImportExpression"}
    [] OTHER -> {"Program", "ExportNamedDeclaration"}

(***************************************************************************)
(* The file system as findActualFilePath sees it                           *)
(***************************************************************************)
RECURSIVE Ancestors(_)
Ancestors(p) == IF p = "/" THEN {"/"} ELSE {Dirname(p)} \cup Ancestors(Dirname(p))

DiskDirs == UNION {Ancestors(f) : f \in DiskFiles}

\* (await fs.promises.lstat(p)).isFile(), false when lstat throws
IsFile(p) == p \in DiskFiles

\* fs.promises.readdir(d, {withFileTypes: true}) of an existing directory
Readdir(d) ==
  {[name |-> Basename(f), isFile |-> TRUE, isDirectory |-> FALSE] :
     f \in {g \in DiskFiles : Dirname(g) = d}}
  \cup
  {[name |-> Basename(e), isFile |-> FALSE, isDirectory |-> TRUE] :
     e \in {g \in DiskDirs : g # "/" /\ Dirname(g) = d}}

Resolved(path) == [ok |-> TRUE, path |-> path, error |-> [name |-> "", message |-> ""]]
Thrown(name, message) ==
  [ok |-> FALSE, path |-> "", error |-> [name |-> name, message |-> message]]

\* the first extension EXT of order with names.has(stem + EXT), as a
\* one-element sequence; <<>> when there is none
FirstExt(order, stem, names) ==
  LET hits == {i \in 1..Len(order) : (stem \o order[i]) \in names}
  IN IF hits = {} THEN <<>>
     ELSE << order[CHOOSE i \in hits : \A j \in hits : i <= j] >>

\* The message of the final throw reads entryMethod, which is neither a
\* parameter nor a variable in scope of findActualFilePath: evaluating the
\* template literal throws a ReferenceError before the Error is built.
UnresolvedThrow(filePath) == Thrown("ReferenceError", "entryMethod is not defined")

findActualFilePath(filePath, likelyExtension) ==
  IF IsFile(filePath) THEN Resolved(filePath)
  ELSE
    LET dirname  == Dirname(filePath)
        filename == Slice(filePath, Len(dirname) + 1)
    IN IF dirname \notin DiskDirs
         THEN Thrown("Error", "ENOENT: no such file or directory, scandir '" \o dirname \o "'")
       ELSE
         LET matches == {e \in Readdir(dirname) :
                           e.name = filename \/ StartsWith(e.name, filename \o ".")}
             anyExt == {e.name : e \in {m \in matches : m.isFile}}
             hasSub == \E e \in matches : ~e.isFile /\ e.isDirectory /\ e.name = filename
             subAnyExt ==
               IF hasSub
                 THEN {e.name : e \in {m \in Readdir(filePath) :
                         (m.name = "index" \/ StartsWith(m.name, "index.")) /\ m.isFile}}
                 ELSE {}
             EXTENSION_ORDER ==
               <<likelyExtension, ".tsx", ".ts", ".mjs", ".cjs", ".jsx", ".js">>
             subHit == FirstExt(EXTENSION_ORDER, "index", subAnyExt)
             anyHit == FirstExt(EXTENSION_ORDER, filename, anyExt)
         IN IF likelyExtension # "" /\ (filename \o likelyExtension) \in anyExt
              THEN Resolved(filePath \o likelyExtension)
            ELSE IF likelyExtension # "" /\ ("index" \o likelyExtension) \in subAnyExt
              THEN Resolved(filePath \o "/index" \o likelyExtension)
            ELSE IF subHit # <<>> THEN Resolved(filePath \o "/index" \o subHit[1])
            ELSE IF anyHit # <<>> THEN Resolved(filePath \o anyHit[1])
            ELSE IF "index" \in subAnyExt THEN Resolved(filePath \o "/index")
            ELSE IF Cardinality(subAnyExt) = 1
              THEN Resolved(filePath \o "/index" \o (CHOOSE n \in subAnyExt : TRUE))
            ELSE IF Cardinality(anyExt) = 1
              THEN Resolved(filePath \o (CHOOSE n \in anyExt : TRUE))
            ELSE UnresolvedThrow(filePath)

(***************************************************************************)
(* readForDependencies                                                     *)
(***************************************************************************)
BUILTINS == {"fs", "path", "module", "crypto", "url", "child_process"}

isNodeBuiltin(dependency) ==
  IF StartsWith(dependency, "node:") THEN TRUE
  ELSE IF dependency = "test" THEN FALSE
  ELSE dependency \in BUILTINS

\* the [specifier, method] pairs one node contributes
NodeDependencies(node) ==
  CASE node.type = "ImportExpression" ->
         \* node.source.value exists for a Literal source only
         IF node.argType = "Literal" /\ node.value # ""
           THEN << <<node.value, "import">> >> ELSE <<>>
    [] node.type = "ImportDeclaration" ->
         IF node.importKind = "type" THEN <<>>
         ELSE IF node.value # "" THEN << <<node.value, "import">> >> ELSE <<>>
    [] node.type \in {"ExportNamedDeclaration", "ExportAllDeclaration"} ->
         IF node.value # "" THEN << <<node.value, "import">> >> ELSE <<>>
    [] node.type = "CallExpression" /\ node.callee = "require" ->
         \* Literal: value; TemplateLiteral and String.raw: the first quasi
         IF node.argType \in {"Literal", "TemplateLiteral", "TaggedTemplateExpression"}
              /\ node.value # ""
           THEN << <<node.value, "require">> >> ELSE <<>>
    [] node.type = "CallExpression" /\ node.callee = "require.main.require" ->
         << <<node.value, "require">> >>
    [] OTHER -> <<>>

RECURSIVE readForDependencies(_)
readForDependencies(ast) ==
  IF ast = <<>> THEN <<>>
  ELSE NodeDependencies(Head(ast)) \o readForDependencies(Tail(ast))

(***************************************************************************)
(* updateImports: the synchronous traversal                                *)
(***************************************************************************)
ensureMJS(dependencyPath) ==
  IF StartsWith(dependencyPath, ".") \/ StartsWith(dependencyPath, "/")
    THEN IF Extname(dependencyPath) # ".mjs" THEN dependencyPath \o ".mjs"
         ELSE dependencyPath
  ELSE dependencyPath

ensureCJS(dependencyPath) ==
  IF StartsWith(dependencyPath, ".") \/ StartsWith(dependencyPath, "/")
    THEN IF Extname(dependencyPath) # ".cjs" THEN dependencyPath \o ".cjs"
         ELSE dependencyPath
  ELSE dependencyPath

\* the raw text asLiteral gives a value: double quotes only around a value
\* that contains a single quote
LiteralRaw(value) ==
  IF Includes(value, "'") THEN "\"" \o value \o "\"" ELSE "'" \o value \o "'"

asLiteral(node, value) ==
  [node EXCEPT !.argType = "Literal", !.value = value, !.raw = LiteralRaw(value)]

isRequire(node) == node.type = "CallExpression" /\ node.callee = "require"

\* node.specifiers.find((node) => !node.imported)?.local?.name, "" for undefined
DefaultImportOf(node) ==
  LET plain == SelectSeq(node.specifiers, LAMBDA sp : sp.imported = "")
  IN IF plain = <<>> THEN "" ELSE plain[1].local

\* the [imported, local] pairs of the specifiers that have an imported name
NamedImportsOf(node) ==
  LET named == SelectSeq(node.specifiers, LAMBDA sp : sp.imported # "")
  IN [k \in 1..Len(named) |-> <<named[k].imported, named[k].local>>]

isExternalDependency(value) ==
  ~(StartsWith(value, ".") \/ StartsWith(value, "/") \/ isNodeBuiltin(value))

\* the require-call case of the traversal: lines 451-495
RewriteRequire(node) ==
  IF node.argType = "Literal" THEN asLiteral(node, ensureMJS(node.value))
  ELSE IF node.argType = "TemplateLiteral"
    THEN [node EXCEPT !.value = ensureCJS(node.value)]
  ELSE IF node.argType = "TaggedTemplateExpression"
    THEN [node EXCEPT !.value = ensureMJS(node.value)]
  ELSE node

\* what the traversal callback does to one node
RewriteNode(node) ==
  CASE node.type = "ImportExpression" ->
         IF node.argType = "Literal" /\ node.value # ""
           THEN asLiteral(node, ensureMJS(node.value))
         ELSE IF node.argType \in {"TemplateLiteral", "TaggedTemplateExpression"}
           THEN [node EXCEPT !.value = ensureMJS(node.value)]
         ELSE node
    [] node.type = "ImportDeclaration" ->
         IF node.importKind = "type" \/ node.value = "" THEN node
         ELSE asLiteral(node, ensureMJS(node.value))
    [] node.type \in {"ExportNamedDeclaration", "ExportAllDeclaration"} ->
         IF node.value = "" THEN node ELSE asLiteral(node, ensureMJS(node.value))
    [] isRequire(node) -> RewriteRequire(node)
    [] OTHER -> node

\* the lookup the callback starts for a node (promises.push), if any
NodeLookups(node) ==
  IF /\ node.type = "ImportDeclaration" /\ node.importKind # "type" /\ node.value # ""
     /\ NamedImportsOf(node) # <<>>
     /\ isExternalDependency(ensureMJS(node.value))
    THEN {[nid |-> node.nid, value |-> ensureMJS(node.value),
           defaultImport |-> DefaultImportOf(node),
           namedImports |-> NamedImportsOf(node)]}
    ELSE {}

\* the tree after traverse(ast, ...) returned
TraverseRewrite(ast) == [k \in 1..Len(ast) |-> RewriteNode(ast[k])]

\* the promises pushed during traverse(ast, ...)
TraverseLookups(ast) == UNION {NodeLookups(ast[k]) : k \in 1..Len(ast)}

(***************************************************************************)
(* determineModuleTypeFromPath / determineModuleTypeFromString             *)
(***************************************************************************)
\* toLowerCase of the extensions the packages of the model use
ToLowerCase(s) == IF s = ".MJS" THEN ".mjs" ELSE IF s = ".CJS" THEN ".cjs" ELSE s

MODULE_ONLY_NODE_TYPES ==
  {"ExportAllDeclaration", "ExportDefaultDeclaration", "ExportNamedDeclaration",
   "ExportSpecifier", "ImportAttribute", "ImportDeclaration", "ImportDefaultSpecifier",
   "ImportNamespaceSpecifier", "ImportSpecifier"}

determineModuleTypeFromString(nodeTypes) ==
  IF nodeTypes \cap MODULE_ONLY_NODE_TYPES # {} THEN ".mjs" ELSE ".cjs"

determineModuleTypeFromPath(dependencyEntryFilePath) ==
  LET lowercaseExtension ==
        ToLowerCase(Slice(dependencyEntryFilePath, Len(dependencyEntryFilePath) - 4))
  IN IF lowercaseExtension = ".cjs" \/ lowercaseExtension = ".mjs"
       THEN lowercaseExtension
     ELSE determineModuleTypeFromString(PackageNodeTypes(dependencyEntryFilePath))

(***************************************************************************)
(* updateImports: the callback of one lookup (lines 388-429)               *)
(***************************************************************************)
\* node.parent.indexOf(node), 0 for -1
IndexOfNode(ast, nid) ==
  LET at == {k \in 1..Len(ast) : ast[k].nid = nid}
  IN IF at = {} THEN 0 ELSE CHOOSE k \in at : TRUE

\* the destructuring declaration; its identity is new (the negated nid)
ShimDeclaration(lookup, uniqueID) ==
  [nid |-> 0 - lookup.nid, type |-> "VariableDeclaration", importKind |-> "value",
   callee |-> "", argType |-> "", value |-> "", raw |-> "", specifiers |-> <<>>,
   properties |-> [k \in 1..Len(lookup.namedImports) |->
                     [key |-> lookup.namedImports[k][1],
                      value |-> lookup.namedImports[k][2],
                      shorthand |-> TRUE]],
   init |-> uniqueID]

\* a slip: the named specifiers stay on the import
ShimmedImportKeepingNamed(node, uniqueID) ==
  [node EXCEPT !.specifiers =
     << DefaultSpec(uniqueID) >> \o SelectSeq(node.specifiers, LAMBDA sp : sp.imported # "")]

\* lines 420-425: the import is left with one default specifier
ShimmedImport(node, uniqueID) ==
  [node EXCEPT !.specifiers = << DefaultSpec(uniqueID) >>]

\* the tree after the callback ran for a dependency of type dependencyModuleType;
\* generated is what the template xnr_${randomUUID().slice(-12)} evaluates to
ApplyLookup(ast, lookup, dependencyModuleType, generated) ==
  LET index == IndexOfNode(ast, lookup.nid)
  IN IF dependencyModuleType = ".cjs" /\ index # 0
       THEN LET uniqueID == IF lookup.defaultImport # "" THEN lookup.defaultImport
                            ELSE generated
                cjs == ShimDeclaration(lookup, uniqueID)
            IN SubSeq(ast, 1, index - 1)
               \o << ShimmedImport(ast[index], uniqueID) >>
               \o << cjs >>
               \o SubSeq(ast, index + 1, Len(ast))
     ELSE ast

(***************************************************************************)
(* generate(ast): the text of a tree, one statement per line               *)
(***************************************************************************)
RECURSIVE JoinStr(_, _)
JoinStr(parts, sep) ==
  IF parts = <<>> THEN ""
  ELSE IF Len(parts) = 1 THEN parts[1]
  ELSE parts[1] \o sep \o JoinStr(Tail(parts), sep)

SpecifierText(sp) ==
  IF sp.imported = "" \/ sp.imported = sp.local THEN sp.local
  ELSE sp.imported \o " as " \o sp.local

\* stands for the backquote of a template literal, a character a TLA+ string
\* cannot hold
Backquote == "~"

ArgumentText(node) ==
  CASE node.argType = "Literal" -> node.raw
    [] node.argType = "TemplateLiteral" -> Backquote \o node.value \o Backquote
    [] node.argType = "TaggedTemplateExpression" ->
         "String.raw" \o Backquote \o node.value \o Backquote
    [] OTHER -> ""

ImportText(node) ==
  LET plain == SelectSeq(node.specifiers, LAMBDA sp : sp.imported = "")
      named == SelectSeq(node.specifiers, LAMBDA sp : sp.imported # "")
      parts == [k \in 1..Len(plain) |-> plain[k].local]
               \o (IF named = <<>> THEN <<>>
                   ELSE << "{" \o JoinStr([k \in 1..Len(named) |-> SpecifierText(named[k])],
                                          ", ") \o "}" >>)
  IN IF parts = <<>> THEN "import " \o node.raw \o ";\n"
     ELSE "import " \o JoinStr(parts, ", ") \o " from " \o node.raw \o ";\n"

\* a shorthand property is printed as its value alone
PropertyText(prop) ==
  IF prop.shorthand THEN prop.value ELSE prop.key \o ": " \o prop.value

StatementText(node) ==
  CASE node.type = "ImportDeclaration" -> ImportText(node)
    [] node.type = "ImportExpression" -> "import(" \o ArgumentText(node) \o ");\n"
    [] node.type = "ExportAllDeclaration" -> "export * from " \o node.raw \o ";\n"
    [] node.type = "ExportNamedDeclaration" -> "export {} from " \o node.raw \o ";\n"
    [] node.type = "CallExpression" ->
         node.callee \o "(" \o ArgumentText(node) \o ");\n"
    [] node.type = "VariableDeclaration" ->
         "const {" \o JoinStr([k \in 1..Len(node.properties) |->
                                 PropertyText(node.properties[k])], ", ")
                   \o "} = " \o node.init \o ";\n"
    [] OTHER -> ""

generate(ast) == JoinStr([k \in 1..Len(ast) |-> StatementText(ast[k])], "")

(***************************************************************************)
(* build: common root, output paths, prelude                               *)
(***************************************************************************)
\* the default of build's outputDirectory parameter
OutputDirectory == PathJoin(Cwd, ".jbuild")

\* lines 94-102
RECURSIVE CommonRootLoop(_, _)
CommonRootLoop(commonRoot, files) ==
  IF commonRoot = "/" THEN commonRoot
  ELSE LET next == PathJoin(commonRoot, "..")
           ensureSlash == next \o "/"
       IN IF \A k \in 1..Len(files) : StartsWith(files[k].inputFile, ensureSlash)
            THEN next
          ELSE CommonRootLoop(next, files)

\* lines 114-119
Shebang == "#!/usr/bin/env node\n"
RequirePrelude ==
  "import { createRequire } from 'node:module';\n"
  \o "const require = createRequire(import.meta.url);\n"

PreludeOf(outputFormat, newFile) ==
  IF outputFormat = ".mjs" /\ ~Includes(newFile, "createRequire")
    THEN RequirePrelude
  ELSE Shebang

\* lines 120-125
OutputFilePathOf(outputDirectory, commonRoot, inputFile, outputFormat) ==
  LET sliced == outputDirectory \o "/" \o Slice(inputFile, Len(commonRoot) + 1)
      ext == Extname(sliced)
      outputPath == IF ext # outputFormat
                      THEN SliceTo(sliced, Len(sliced) - Len(ext)) \o outputFormat
                    ELSE sliced
  IN PathJoin(outputDirectory, outputPath)

\* what randomUUID can make of the generated identifier
GeneratedIDs == {"xnr_0123456789ab", "xnr_ba9876543210"}

(***************************************************************************)
(* State                                                                   *)
(***************************************************************************)
VARIABLES
  entryBody,            \* the statements of the entry file (the input)
  phase,                \* where build() is
  fileStack,            \* build: fileStack
  explored,             \* build: explored
  internalSourceFiles,  \* build: internalSourceFiles
  astCache,             \* build: astCache, raw path -> tree
  current,              \* the frame popped last
  commonRootPath,       \* build: commonRootPath
  outputEntryFilePath,  \* build: outputEntryFilePath, "" for undefined
  tasks,                \* the async callbacks of internalSourceFiles.map
  outDirs,              \* the directories that exist at or below outputDirectory
  outFiles,             \* the files below outputDirectory, path -> content
  result,               \* how build() ended: pending, returned or threw
  run,                  \* "first" or "second" build of the same sources
  prevOut               \* outFiles as the first build left them

vars == <<entryBody, phase, fileStack, explored, internalSourceFiles, astCache,
          current, commonRootPath, outputEntryFilePath, tasks, outDirs, outFiles,
          result, run, prevOut>>

Frame(filePath, likelyExtension, entryMethod) ==
  [filePath |-> filePath, likelyExtension |-> likelyExtension, entryMethod |-> entryMethod]

NoError == [name |-> "", message |-> ""]
Pending == [status |-> "pending", value |-> "", error |-> NoError]
Returned(v) == [status |-> "returned", value |-> v, error |-> NoError]
Threw(e) == [status |-> "threw", value |-> "", error |-> e]

\* a callback of internalSourceFiles.map before it is called
IdleTask ==
  [pc |-> "idle", hadLookups |-> FALSE, pending |-> {}, newFile |-> "",
   prelude |-> "", outputFilePath |-> ""]

firstFilePath == PathResolve(Cwd, EntryFile)

\* parseModule(code) of the transformed source of actualFilePath
ParsedSource(actualFilePath) ==
  IF actualFilePath = EntryFile THEN entryBody ELSE FixedSource(actualFilePath)

\* what an earlier build of an entry file without statements left behind
EarlierOutput ==
  LET path == OutputFilePathOf(OutputDirectory, Dirname(EntryFile), EntryFile, ".cjs")
  IN [q \in {path} |-> PreludeOf(".cjs", "") \o ""]

DirsDownTo(path) == {d \in Ancestors(path) : StartsWith(d, OutputDirectory)}

\* the local variables of build() at its start
BuildStart ==
  /\ phase = "traverse"
  /\ fileStack = << Frame(firstFilePath, Extname(firstFilePath), "entry") >>
  /\ explored = {}
  /\ internalSourceFiles = <<>>
  /\ astCache = <<>>
  /\ current = Frame("", "", "")
  /\ commonRootPath = ""
  /\ outputEntryFilePath = ""
  /\ tasks = <<>>
  /\ result = Pending

Init ==
  /\ entryBody \in EntryBodies
  /\ BuildStart
  /\ \/ outFiles = <<>> /\ outDirs = {}
     \/ /\ outFiles = EarlierOutput
        /\ outDirs = UNION {DirsDownTo(q) : q \in DOMAIN EarlierOutput}
  /\ run = "first"
  /\ prevOut = <<>>

(***************************************************************************)
(* build: the traversal loop, one iteration per step                       *)
(***************************************************************************)
isInternal(dep) == StartsWith(dep[1], ".") \/ StartsWith(dep[1], "/")
notBuiltin(dep) == ~isNodeBuiltin(dep[1])

\* the dependencies of a parsed file, builtins filtered out
Dependencies(ast) == SelectSeq(readForDependencies(ast), notBuiltin)

\* the frames pushed for the internal dependencies, in order
PushedFrames(actualFilePath, likelyExtension, dependencies) ==
  LET internal == SelectSeq(dependencies, isInternal)
  IN [k \in 1..Len(internal) |->
        LET nextFilePath == PathResolveUp(actualFilePath, internal[k][1])
        IN Frame(nextFilePath,
                 IF Extname(nextFilePath) # "" THEN Extname(nextFilePath)
                 ELSE likelyExtension,
                 internal[k][2])]

\* a slip: the entry file turns dynamic as soon as one edge is a require
OutputFormatAnyRequire(entryMethod, dependencies) ==
  LET isCJS == \E k \in 1..Len(dependencies) : dependencies[k][2] = "require"
  IN IF entryMethod = "require" \/ (entryMethod = "entry" /\ isCJS)
       THEN ".cjs" ELSE ".mjs"

\* lines 78-82
OutputFormat(entryMethod, dependencies) ==
  LET isESM == \E k \in 1..Len(dependencies) : dependencies[k][2] = "import"
  IN IF entryMethod = "require" \/ (entryMethod = "entry" /\ ~isESM)
       THEN ".cjs" ELSE ".mjs"

\* the call of line 40: the likelyExtension argument is not passed
ResolveFrame(frame) == findActualFilePath(frame.filePath, "")

emitVars == <<commonRootPath, outputEntryFilePath, tasks, outDirs, outFiles, run, prevOut>>

\* the frame on top of the stack was explored before: nothing happens
VisitExplored ==
  /\ phase = "traverse" /\ fileStack # <<>>
  /\ LET frame == fileStack[Len(fileStack)]
     IN /\ frame.filePath \in explored
        /\ fileStack' = SubSeq(fileStack, 1, Len(fileStack) - 1)
        /\ current' = frame
  /\ UNCHANGED <<entryBody, phase, explored, internalSourceFiles, astCache, result>>
  /\ UNCHANGED emitVars

\* lines 35-89 for a frame that resolves to a readable file
VisitFile ==
  /\ phase = "traverse" /\ fileStack # <<>>
  /\ LET frame == fileStack[Len(fileStack)]
         found == ResolveFrame(frame)
     IN /\ frame.filePath \notin explored
        /\ found.ok /\ found.path \in DiskFiles
        /\ LET ast == ParsedSource(found.path)
               dependencies == Dependencies(ast)
           IN /\ fileStack' = SubSeq(fileStack, 1, Len(fileStack) - 1)
                     \o PushedFrames(found.path, frame.likelyExtension, dependencies)
              /\ astCache' = [q \in (DOMAIN astCache) \cup {frame.filePath} |->
                                IF q = frame.filePath THEN ast ELSE astCache[q]]
              /\ internalSourceFiles' = Append(internalSourceFiles,
                     [rawInputFile |-> frame.filePath, inputFile |-> found.path,
                      outputFormat |-> OutputFormat(frame.entryMethod, dependencies)])
        /\ explored' = explored \cup {frame.filePath}
        /\ current' = frame
  /\ UNCHANGED <<entryBody, phase, result>>
  /\ UNCHANGED emitVars

\* findActualFilePath throws, or readFile of the path it returned does
VisitFails ==
  /\ phase = "traverse" /\ fileStack # <<>>
  /\ LET frame == fileStack[Len(fileStack)]
         found == ResolveFrame(frame)
     IN /\ frame.filePath \notin explored
        /\ ~(found.ok /\ found.path \in DiskFiles)
        /\ fileStack' = SubSeq(fileStack, 1, Len(fileStack) - 1)
        /\ explored' = explored \cup {frame.filePath}
        /\ current' = frame
        /\ result' = Threw(IF found.ok
                             THEN [name |-> "Error",
                                   message |-> "ENOENT: no such file or directory, open '"
                                               \o found.path \o "'"]
                             ELSE found.error)
        /\ phase' = "failed"
  /\ UNCHANGED <<entryBody, internalSourceFiles, astCache>>
  /\ UNCHANGED emitVars

(***************************************************************************)
(* build: after the loop                                                   *)
(***************************************************************************)
\* lines 94-102
CommonRoot ==
  /\ phase = "traverse" /\ fileStack = <<>>
  /\ commonRootPath' = CommonRootLoop(firstFilePath, internalSourceFiles)
  /\ phase' = "reset"
  /\ UNCHANGED <<entryBody, fileStack, explored, internalSourceFiles, astCache, current,
                 outputEntryFilePath, tasks, outDirs, outFiles, result, run, prevOut>>

\* lines 104-105: rm -rf outputDirectory, mkdir -p outputDirectory
ResetOutputDirectory ==
  /\ phase = "reset"
  /\ outFiles' = <<>>
  /\ outDirs' = {OutputDirectory}
  /\ tasks' = [i \in 1..Len(internalSourceFiles) |-> IdleTask]
  /\ phase' = "map"
  /\ UNCHANGED <<entryBody, fileStack, explored, internalSourceFiles, astCache, current,
                 commonRootPath, outputEntryFilePath, result, run, prevOut>>

(***************************************************************************)
(* build: the callbacks of internalSourceFiles.map.  map calls them in     *)
(* order; each runs up to the await inside updateImports.  A callback      *)
(* whose updateImports started no lookup continues in a microtask, in      *)
(* call order and before any I/O completes; the others continue when       *)
(* their lookups have completed, in any order.                             *)
(***************************************************************************)
\* the callback is called: updateImports runs traverse and awaits its promises
StartTask(i) ==
  /\ phase = "map"
  /\ tasks[i].pc = "idle" /\ \A j \in 1..(i - 1) : tasks[j].pc # "idle"
  /\ LET raw == internalSourceFiles[i].rawInputFile
         lookups == TraverseLookups(astCache[raw])
     IN /\ astCache' = [astCache EXCEPT ![raw] = TraverseRewrite(@)]
        /\ tasks' = [tasks EXCEPT ![i] = [@ EXCEPT !.pc = "rewriting",
                                                   !.hadLookups = lookups # {},
                                                   !.pending = lookups]]
  /\ phase' = IF i = Len(tasks) THEN "emit" ELSE phase
  /\ UNCHANGED <<entryBody, fileStack, explored, internalSourceFiles, current,
                 commonRootPath, outputEntryFilePath, outDirs, outFiles, result, run,
                 prevOut>>

\* Promise.all(promises) of task i is fulfilled
Ready(i) == tasks[i].pc = "rewriting" /\ tasks[i].pending = {}

\* an I/O completion is delivered only when no microtask is left to run
MicrotasksDrained == \A j \in 1..Len(tasks) : ~Ready(j)

\* one lookup of task i completes: import.meta.resolve, then
\* determineModuleTypeFromPath, then the callback of lines 388-429
LookupDone(i, lookup) ==
  /\ phase = "emit" /\ MicrotasksDrained
  /\ lookup \in tasks[i].pending
  /\ LET raw == internalSourceFiles[i].rawInputFile
         dependencyEntryFilePath == PackageEntry(lookup.value)
     IN IF dependencyEntryFilePath = ""
          THEN \* import.meta.resolve rejects: so do updateImports and the callback
               /\ tasks' = [tasks EXCEPT ![i] = [@ EXCEPT !.pc = "failed",
                                                          !.pending = @ \ {lookup}]]
               /\ result' = IF result.status = "pending"
                              THEN Threw([name |-> "Error",
                                          message |-> "Cannot find package '"
                                                      \o lookup.value \o "'"])
                            ELSE result
               /\ UNCHANGED astCache
          ELSE /\ \E generated \in GeneratedIDs :
                    astCache' = [astCache EXCEPT ![raw] =
                       ApplyLookup(@, lookup,
                                   determineModuleTypeFromPath(dependencyEntryFilePath),
                                   generated)]
               /\ tasks' = [tasks EXCEPT ![i] = [@ EXCEPT !.pending = @ \ {lookup}]]
               /\ UNCHANGED result
  /\ UNCHANGED <<entryBody, phase, fileStack, explored, internalSourceFiles, current,
                 commonRootPath, outputEntryFilePath, outDirs, outFiles, run, prevOut>>

\* lines 111-131: updateImports returns generate(ast); the callback computes
\* the prelude and the output path, claims outputEntryFilePath and awaits mkdir
ResumeTask(i) ==
  /\ phase = "emit" /\ Ready(i)
  /\ \A j \in 1..Len(tasks) :
       (Ready(j) /\ ~tasks[j].hadLookups) => (~tasks[i].hadLookups /\ i <= j)
  /\ LET file == internalSourceFiles[i]
         newFile == generate(astCache[file.rawInputFile])
         outputFilePath == OutputFilePathOf(OutputDirectory, commonRootPath,
                                            file.inputFile, file.outputFormat)
     IN /\ tasks' = [tasks EXCEPT ![i] =
                       [@ EXCEPT !.pc = "mkdir", !.newFile = newFile,
                                 !.prelude = PreludeOf(file.outputFormat, newFile),
                                 !.outputFilePath = outputFilePath]]
        /\ outputEntryFilePath' = IF outputEntryFilePath = "" THEN outputFilePath
                                  ELSE outputEntryFilePath
  /\ UNCHANGED <<entryBody, phase, fileStack, explored, internalSourceFiles, astCache,
                 current, commonRootPath, outDirs, outFiles, result, run, prevOut>>

\* line 131: mkdir -p of the directory of the output file completes
MkdirDone(i) ==
  /\ phase = "emit" /\ MicrotasksDrained
  /\ tasks[i].pc = "mkdir"
  /\ outDirs' = outDirs \cup DirsDownTo(tasks[i].outputFilePath)
  /\ tasks' = [tasks EXCEPT ![i] = [@ EXCEPT !.pc = "write"]]
  /\ UNCHANGED <<entryBody, phase, fileStack, explored, internalSourceFiles, astCache,
                 current, commonRootPath, outputEntryFilePath, outFiles, result, run,
                 prevOut>>

\* line 134: writeFile completes
WriteDone(i) ==
  /\ phase = "emit" /\ MicrotasksDrained
  /\ tasks[i].pc = "write"
  /\ outFiles' = [q \in (DOMAIN outFiles) \cup {tasks[i].outputFilePath} |->
                    IF q = tasks[i].outputFilePath
                      THEN tasks[i].prelude \o tasks[i].newFile
                    ELSE outFiles[q]]
  /\ tasks' = [tasks EXCEPT ![i] = [@ EXCEPT !.pc = "done"]]
  /\ UNCHANGED <<entryBody, phase, fileStack, explored, internalSourceFiles, astCache,
                 current, commonRootPath, outputEntryFilePath, outDirs, result, run,
                 prevOut>>

\* lines 109/138: every callback's promise is fulfilled, build returns
Return ==
  /\ phase = "emit" /\ result.status = "pending"
  /\ \A i \in 1..Len(tasks) : tasks[i].pc = "done"
  /\ result' = Returned(outputEntryFilePath)
  /\ phase' = "done"
  /\ UNCHANGED <<entryBody, fileStack, explored, internalSourceFiles, astCache, current,
                 commonRootPath, outputEntryFilePath, tasks, outDirs, outFiles, run,
                 prevOut>>

\* build is called again with the same entry file and output directory
Rebuild ==
  /\ phase = "done" /\ run = "first"
  /\ phase' = "traverse"
  /\ fileStack' = << Frame(firstFilePath, Extname(firstFilePath), "entry") >>
  /\ explored' = {}
  /\ internalSourceFiles' = <<>>
  /\ astCache' = <<>>
  /\ current' = Frame("", "", "")
  /\ commonRootPath' = ""
  /\ outputEntryFilePath' = ""
  /\ tasks' = <<>>
  /\ result' = Pending
  /\ run' = "second"
  /\ prevOut' = outFiles
  /\ UNCHANGED <<entryBody, outDirs, outFiles>>

Next ==
  \/ VisitExplored
  \/ VisitFile
  \/ VisitFails
  \/ CommonRoot
  \/ ResetOutputDirectory
  \/ \E i \in 1..Len(tasks) : StartTask(i)
  \/ \E i \in 1..Len(tasks) : \E lookup \in tasks[i].pending : LookupDone(i, lookup)
  \/ \E i \in 1..Len(tasks) : ResumeTask(i)
  \/ \E i \in 1..Len(tasks) : MkdirDone(i)
  \/ \E i \in 1..Len(tasks) : WriteDone(i)
  \/ Return
  \/ Rebuild

Spec == Init /\ [][Next]_vars

(***************************************************************************)
(* updateImports on its own: it is applied to a tree, returns, and is      *)
(* applied again to the tree it left.  The tree is astCache["tree"], the   *)
(* call is tasks[1], prevOut keeps the tree after the first application.   *)
(***************************************************************************)
RewriteInputs == EntryBodies \cup {FixedSource(f) : f \in DiskFiles}

InitRewrite ==
  /\ entryBody \in RewriteInputs
  /\ phase = "updateImports"
  /\ astCache = [q \in {"tree"} |-> entryBody]
  /\ tasks = << IdleTask >>
  /\ fileStack = <<>>
  /\ explored = {}
  /\ internalSourceFiles = <<>>
  /\ current = Frame("", "", "")
  /\ commonRootPath = ""
  /\ outputEntryFilePath = ""
  /\ outDirs = {}
  /\ outFiles = <<>>
  /\ result = Pending
  /\ run = "first"
  /\ prevOut = <<>>

rewriteFixed == <<entryBody, phase, fileStack, explored, internalSourceFiles, current,
                  commonRootPath, outputEntryFilePath, outDirs, outFiles, result>>

\* lines 326-501: traverse, then await Promise.all(promises)
UpdateImportsCall ==
  /\ phase = "updateImports" /\ tasks[1].pc = "idle"
  /\ LET lookups == TraverseLookups(astCache["tree"])
     IN /\ astCache' = [astCache EXCEPT !["tree"] = TraverseRewrite(@)]
        /\ tasks' = [tasks EXCEPT ![1] = [@ EXCEPT !.pc = "rewriting",
                                                   !.hadLookups = lookups # {},
                                                   !.pending = lookups]]
  /\ UNCHANGED <<rewriteFixed, run, prevOut>>

\* one promise of the call settles
UpdateImportsLookup(lookup) ==
  /\ phase = "updateImports" /\ tasks[1].pc \in {"rewriting", "failed"}
  /\ lookup \in tasks[1].pending
  /\ LET dependencyEntryFilePath == PackageEntry(lookup.value)
     IN IF dependencyEntryFilePath = ""
          THEN /\ tasks' = [tasks EXCEPT ![1] = [@ EXCEPT !.pc = "failed",
                                                          !.pending = @ \ {lookup}]]
               /\ UNCHANGED astCache
          ELSE /\ \E generated \in GeneratedIDs :
                    astCache' = [astCache EXCEPT !["tree"] =
                       ApplyLookup(@, lookup,
                                   determineModuleTypeFromPath(dependencyEntryFilePath),
                                   generated)]
               /\ tasks' = [tasks EXCEPT ![1] = [@ EXCEPT !.pending = @ \ {lookup}]]
  /\ UNCHANGED <<rewriteFixed, run, prevOut>>

\* line 503: return generate(ast)
UpdateImportsReturn ==
  /\ phase = "updateImports" /\ Ready(1)
  /\ tasks' = [tasks EXCEPT ![1] = [@ EXCEPT !.pc = "returned",
                                             !.newFile = generate(astCache["tree"])]]
  /\ UNCHANGED <<rewriteFixed, astCache, run, prevOut>>

\* updateImports is called on the tree it returned from
UpdateImportsAgain ==
  /\ phase = "updateImports" /\ tasks[1].pc = "returned" /\ run = "first"
  /\ prevOut' = astCache
  /\ run' = "second"
  /\ tasks' = << IdleTask >>
  /\ UNCHANGED <<rewriteFixed, astCache>>

NextRewrite ==
  \/ UpdateImportsCall
  \/ \E lookup \in tasks[1].pending : UpdateImportsLookup(lookup)
  \/ UpdateImportsReturn
  \/ UpdateImportsAgain

SpecRewrite == InitRewrite /\ [][NextRewrite]_vars

(***************************************************************************)
(* Properties                                                              *)
(***************************************************************************)
TaskIndexes == 1..Len(tasks)

WrittenBy(i) == tasks[i].pc = "done"

\* the files the entry file reaches through relative and absolute specifiers
InternalTargets(file) ==
  LET deps == SelectSeq(Dependencies(ParsedSource(file)), isInternal)
      hits == {findActualFilePath(PathResolveUp(file, deps[k][1]), "") : k \in 1..Len(deps)}
  IN {r.path : r \in {h \in hits : h.ok}} \cap DiskFiles

RECURSIVE ReachableFrom(_)
ReachableFrom(files) ==
  LET more == files \cup UNION {InternalTargets(f) : f \in files}
  IN IF more = files THEN files ELSE ReachableFrom(more)

\* C1: when build has returned, every file reachable from the entry file
\* through relative/absolute specifiers was emitted exactly once: one callback
\* wrote it, and no other file was written to the same output path.
C1_EveryReachableFileOnce ==
  phase = "done" =>
    \A f \in ReachableFrom({EntryFile}) :
      /\ Cardinality({i \in TaskIndexes :
                        WrittenBy(i) /\ internalSourceFiles[i].inputFile = f}) = 1
      /\ \A i, j \in TaskIndexes :
           (internalSourceFiles[i].inputFile = f
              /\ tasks[i].outputFilePath = tasks[j].outputFilePath)
           => internalSourceFiles[j].inputFile = f

\* the dependency edges of a file as the syntax shows them, builtins left out
IsImportEdge(node) ==
  /\ node.type \in {"ImportDeclaration", "ImportExpression", "ExportNamedDeclaration",
                    "ExportAllDeclaration"}
  /\ node.argType = "Literal" /\ node.importKind # "type"
  /\ ~isNodeBuiltin(node.value)
IsRequireEdge(node) ==
  /\ node.type = "CallExpression"
  /\ node.callee \in {"require", "require.main.require"}
  /\ ~isNodeBuiltin(node.value)
HasImportEdge(body) == \E k \in 1..Len(body) : IsImportEdge(body[k])
HasRequireEdge(body) == \E k \in 1..Len(body) : IsRequireEdge(body[k])

\* the entry file's record is the first one: its frame is the first popped
EntryRecorded ==
  /\ Len(internalSourceFiles) >= 1
  /\ internalSourceFiles[1].rawInputFile = firstFilePath

\* C2 as stated: the entry file is given .mjs when its direct dependencies use
\* only static-import syntax, and .cjs when any direct dependency is reached
\* via require.
C2_Original ==
  EntryRecorded =>
    /\ (HasImportEdge(entryBody) /\ ~HasRequireEdge(entryBody))
         => internalSourceFiles[1].outputFormat = ".mjs"
    /\ HasRequireEdge(entryBody)
         => internalSourceFiles[1].outputFormat = ".cjs"

\* C2 as amended: the entry file is given .mjs when at least one of its direct
\* dependencies that is no builtin is import-tagged, whatever the others are,
\* and .cjs when none is (they are all require-tagged, or there are none).
C2_EntryFormat ==
  EntryRecorded =>
    internalSourceFiles[1].outputFormat =
      (IF HasImportEdge(entryBody) THEN ".mjs" ELSE ".cjs")

\* an entry file with an import edge and a require edge was given its format
C2_Witness ==
  /\ EntryRecorded
  /\ HasImportEdge(entryBody) /\ HasRequireEdge(entryBody)
  /\ internalSourceFiles[1].outputFormat = ".mjs"

\* C3: once a tree went through updateImports, every require call whose first
\* argument is a relative or absolute specifier (string literal, template
\* literal or String.raw template) has a specifier ending in .cjs.
C3_RequireTargetsPinned ==
  \A i \in TaskIndexes :
    (phase \in {"map", "emit", "done"} /\ tasks[i].pc # "idle") =>
      LET ast == astCache[internalSourceFiles[i].rawInputFile]
      IN \A k \in 1..Len(ast) :
           (isRequire(ast[k])
              /\ (StartsWith(ast[k].value, ".") \/ StartsWith(ast[k].value, "/")))
           => EndsWith(ast[k].value, ".cjs")

\* C4: what build returns is the output path of the entry file's emitted
\* counterpart, whatever the order in which the callbacks completed.
C4_ReturnsEntryOutputPath ==
  result.status = "returned" =>
    /\ internalSourceFiles[1].rawInputFile = firstFilePath
    /\ result.value = tasks[1].outputFilePath

\* path.relative(root, path) for a path below root
RelativeTo(root, path) ==
  IF root = "/" THEN Slice(path, 1) ELSE Slice(path, Len(root) + 1)

WithExtension(path, ext) == SliceTo(path, Len(path) - Len(Extname(path))) \o ext

\* C5: every file is written at outputDirectory joined with its resolved path
\* relative to the common root, its extension replaced by its output format;
\* so the written path has that extension and lies below outputDirectory.
C5_WrittenAtPlannedPath ==
  \A i \in TaskIndexes :
    (phase \in {"emit", "done"} /\ WrittenBy(i)) =>
      LET file == internalSourceFiles[i]
      IN /\ tasks[i].outputFilePath =
              PathJoin(OutputDirectory,
                       WithExtension(RelativeTo(commonRootPath, file.inputFile),
                                     file.outputFormat))
         /\ Extname(tasks[i].outputFilePath) = file.outputFormat
         /\ StartsWith(tasks[i].outputFilePath, OutputDirectory \o "/")
         /\ tasks[i].outputFilePath \in DOMAIN outFiles

\* C6: when build has failed, no output directory exists: the one an earlier
\* build left was removed before anything could fail.
C6_FailedBuildLeavesNoOutputDirectory ==
  result.status = "threw" => (OutputDirectory \notin outDirs /\ outFiles = <<>>)

\* no file matches any heuristic for the path: no file of that name, no
\* sibling with that stem, no index file in a directory of that name
NothingMatches(filePath) ==
  \A f \in DiskFiles :
    ~(f = filePath \/ StartsWith(f, filePath \o ".") \/ StartsWith(f, filePath \o "/index"))

\* C7: a specifier that nothing matches makes build fail with an error whose
\* message names the unresolved path relative to the working directory and
\* the mechanism (import or require) of the edge that asked for it.
C7_UnresolvedNamesPathAndMechanism ==
  (current.filePath # "" /\ NothingMatches(current.filePath)) =>
     /\ result.status = "threw"
     /\ Includes(result.error.message, RelativeTo(Cwd, current.filePath))
     /\ Includes(result.error.message, current.entryMethod)

\* an import of named bindings from an installed external package that
\* classifies as dynamic-format
IsNamedDynamicImport(node) ==
  /\ node.type = "ImportDeclaration" /\ node.importKind # "type"
  /\ \E k \in 1..Len(node.specifiers) : node.specifiers[k].type = "ImportSpecifier"
  /\ ~(StartsWith(node.value, ".") \/ StartsWith(node.value, "/") \/ isNodeBuiltin(node.value))
  /\ PackageEntry(node.value) # ""
  /\ determineModuleTypeFromPath(PackageEntry(node.value)) = ".cjs"

OwnDefaultNames(node) ==
  {node.specifiers[k].local :
     k \in {j \in 1..Len(node.specifiers) : node.specifiers[j].type = "ImportDefaultSpecifier"}}

NamedPairs(node) ==
  LET named == SelectSeq(node.specifiers, LAMBDA sp : sp.type = "ImportSpecifier")
  IN [k \in 1..Len(named) |-> <<named[k].imported, named[k].local>>]

\* in tree, the import that was 'original' is a default import of one binding,
\* immediately followed by the destructuring of the named bindings from it
HasShimFor(tree, original) ==
  \E pos \in 1..(Len(tree) - 1) :
    /\ tree[pos].nid = original.nid /\ tree[pos].type = "ImportDeclaration"
    /\ Len(tree[pos].specifiers) = 1
    /\ tree[pos].specifiers[1].type = "ImportDefaultSpecifier"
    /\ LET id == tree[pos].specifiers[1].local
           shim == tree[pos + 1]
       IN /\ IF OwnDefaultNames(original) # {} THEN id \in OwnDefaultNames(original)
             ELSE id \in GeneratedIDs
          /\ shim.type = "VariableDeclaration" /\ shim.init = id
          /\ [k \in 1..Len(shim.properties) |->
                <<shim.properties[k].key, shim.properties[k].value>>] = NamedPairs(original)

InteropNodes(tree) ==
  SelectSeq(tree, LAMBDA n : n.type \in {"ImportDeclaration", "VariableDeclaration"})

C9_SecondBuildIdentical ==
  (phase = "done" /\ run = "second") => outFiles = prevOut

\* C10: every file build wrote begins with the interpreter directive line.
C10_EveryFileStartsWithDirective ==
  \A i \in TaskIndexes :
    (phase \in {"emit", "done"} /\ WrittenBy(i)) =>
      StartsWith(outFiles[tasks[i].outputFilePath], Shebang)

\* C11: once the traversal of build has ended, every resolved file path has
\* exactly one record among internalSourceFiles: two raw paths that resolve to
\* the same file on disk make one record, with one output format.
C11_OneRecordPerResolvedPath ==
  (phase # "traverse" /\ result.status # "threw") =>
    \A i, j \in 1..Len(internalSourceFiles) :
      internalSourceFiles[i].inputFile = internalSourceFiles[j].inputFile => i = j

\* what the hint asks for: the sibling filePath + hint, else the sub-index file
\* index + hint, "" when neither exists
HintedCandidate(filePath, hint) ==
  IF IsFile(filePath \o hint) THEN filePath \o hint
  ELSE IF IsFile(filePath \o "/index" \o hint) THEN filePath \o "/index" \o hint
  ELSE ""

\* C13: when the traversal records a frame whose raw path is no existing file
\* and whose likely-extension hint is not empty, the file recorded for it is
\* the sibling raw path + hint when that exists, else the sub-index file
\* index + hint when that exists, before the fixed extension order is tried.
C13_HintFirstResolution ==
  [][(phase = "traverse" /\ fileStack # <<>>
        /\ Len(internalSourceFiles') = Len(internalSourceFiles) + 1)
     => LET frame == fileStack[Len(fileStack)]
            file == internalSourceFiles'[Len(internalSourceFiles')]
        IN (~IsFile(frame.filePath) /\ frame.likelyExtension # ""
              /\ HintedCandidate(frame.filePath, frame.likelyExtension) # "")
           => file.inputFile = HintedCandidate(frame.filePath, frame.likelyExtension)
    ]_vars

\* an import, dynamic import, re-export or require whose specifier is relative
\* or absolute
IsInternalReference(node) ==
  /\ \/ node.type \in {"ImportDeclaration", "ImportExpression", "ExportNamedDeclaration",
                        "ExportAllDeclaration"}
     \/ isRequire(node)
  /\ node.importKind # "type"
  /\ StartsWith(node.value, ".") \/ StartsWith(node.value, "/")

\* C12: when build has returned, every relative or absolute specifier of every
\* discovered file, as rewritten, resolves from the directory of the file's
\* output path to exactly the output path the target file was written at.
C12_EmittedTreeConsistent ==
  phase = "done" =>
    \A i \in TaskIndexes :
      LET file == internalSourceFiles[i]
          before == ParsedSource(file.inputFile)
          after == astCache[file.rawInputFile]
      IN \A k \in 1..Len(before) :
           IsInternalReference(before[k]) =>
             LET target == PathResolveUp(file.inputFile, before[k].value)
                 at == IndexOfNode(after, before[k].nid)
             IN /\ at # 0
                /\ \E j \in TaskIndexes :
                     /\ internalSourceFiles[j].rawInputFile = target
                     /\ WrittenBy(j)
                     /\ PathResolveUp(tasks[i].outputFilePath, after[at].value)
                          = tasks[j].outputFilePath

====
